---- MODULE Spec2Model ----
(***************************************************************************)
(* A model of restic's snapshot archiver (archiver.go).                    *)
(*                                                                         *)
(* The specifications of this module share its definitions:                *)
(*   Spec         Archiver.Save calls on the global Map arch.m and the     *)
(*                store, with the other writers of arch.m (dirWorker,      *)
(*                saveTree);                                               *)
(*   SpecFile     SaveFile calls of the file workers, their chunk          *)
(*                goroutines running Archiver.Save, the token pool;        *)
(*   SpecCompare  ArchivePipe.compare, copyJobs and archiveJob.Copy on     *)
(*                pairs of walker streams (SpecCompareLive: with a fair    *)
(*                scheduler);                                              *)
(*   SpecSnapshot Archiver.Snapshot: compare, split, the file and          *)
(*                directory workers and the commit of the snapshot;        *)
(*   SpecCancel   Snapshot with a close of its channel done                *)
(*                (SpecCancelLive: with a fair scheduler);                 *)
(*   SpecTerminate  Snapshot without failures, with a fair scheduler;      *)
(*   SpecPreload  Archiver.Preload;                                        *)
(*   SpecTree     Archiver.saveTree of a tree with one file node;          *)
(*   SpecTreeJSON the SaveTreeJSON calls of the directory workers.         *)
(***************************************************************************)
EXTENDS Integers, Sequences, FiniteSets, TLC

VARIABLES
    index,      \* arch.m, the global Map: a set of Blob records, one per ID
    store,      \* storage ids of the objects the backend holds
    nextSid,    \* last storage id the backend handed out
    tokens,     \* number of tokens in arch.blobToken
    sv,         \* per chunk goroutine: the state of its Archiver.Save call
    sf,         \* per SaveFile call (one per file worker): its state
    st,         \* the state of a saveTree call
    panicked,   \* a goroutine called panic(err): the process is gone
    hist,       \* history: what was uploaded, returned and deleted, and counters
    oldCh,      \* jobs.Old: what the walker of the parent tree has yet to send
    newCh,      \* jobs.New: what the walker of the file system has yet to send
    cmp,        \* the locals of ArchivePipe.compare and of its copyJobs
    walked,     \* history: the two streams as walked, and what compare sent
    split,      \* pipe.Split between compare and the workers: the job it holds
    fw,         \* per file worker: where it is, and its job
    dw,         \* per directory worker: where it is, its job and its tree
    results,    \* the result channels of the jobs, by path
    tindex,     \* arch.m, the records of trees (those of data are in index)
    snap,       \* Snapshot after wg.Wait: the root tree and the snapshot
    done,       \* the channel done of Snapshot is closed
    walkErr,    \* pipe.Walk returned an error and sent no root job
    pre         \* the Preload call: the listing, its workers and its result

saverVars == <<index, store, nextSid, tokens, sv, sf, st, panicked, hist>>

compareVars == <<oldCh, newCh, cmp, walked>>

pipeVars == <<split, fw, dw, results, tindex, snap, done, walkErr>>

preloadVars == <<pre>>

otherThanSaver == <<compareVars, pipeVars, preloadVars>>

otherThanCompare == <<saverVars, pipeVars, preloadVars>>

vars == <<saverVars, compareVars, pipeVars, preloadVars>>

----------------------------------------------------------------------------
(* Bounds of the model *)

\* chunks per file
MaxChunks == 2
\* SaveFile calls per run of SpecFile
MaxFiles == 2
\* Save calls per run of Spec
MaxCalls == 3
\* store operations that may fail per run
MaxFail == 1
\* storage objects that exist before the run (left by earlier snapshots)
NOld == 1
\* capacity of arch.blobToken, scaled down from the program's 32
maxConcurrentBlobs == 2

Workers == {"w1", "w2"}
DirWorkers == {"v1", "v2"}
DataIDs == {"d1", "d2"}
NilID == "nil"
NilSid == 0

\* the Save calls of Spec, which looks at Save alone
Calls == {"call"} \X (1..MaxCalls)

\* one goroutine per chunk of a SaveFile call, and the calls of Spec
Procs == (Workers \X (1..MaxChunks)) \cup Calls

----------------------------------------------------------------------------
(* Blob records and the Map (map.go is not part of the sources; its        *)
(* operations follow section 4.1 of the specification)                     *)

Blob(id, sid, size) == [ID |-> id, Storage |-> sid, Size |-> size]

\* Go's zero value Blob{}
ZeroBlob == Blob(NilID, NilSid, 0)

\* every chunk of the model is one unit long
ChunkLength(id) == 1

\* records of earlier snapshots: encryptions of the plaintext d1
OldBlobs == {Blob("d1", s, ChunkLength("d1")) : s \in 1..NOld}

\* Map.FindID: the set holding the record of id, empty when not found
FindID(m, id) == {b \in m : b.ID = id}

\* Map.Insert: the Map afterwards (an existing record is kept unchanged)
Insert(m, b) == IF FindID(m, b.ID) # {} THEN m ELSE m \cup {b}

\* Map.Insert: the canonical record it returns
InsertResult(m, b) == CHOOSE e \in Insert(m, b) : e.ID = b.ID

\* Map.DeleteID
DeleteID(m, id) == {b \in m : b.ID # id}

\* Map.Merge: Insert of every record of other
RECURSIVE Merge(_, _)
Merge(m, other) ==
    IF other = {} THEN m
    ELSE LET b == CHOOSE x \in other : TRUE
         IN  Merge(Insert(m, b), other \ {b})

\* a Map holds at most one record per ID
IsMap(m) == \A a, b \in m : a.ID = b.ID => a = b

\* Server.Test(backend.Data, sid)
Test(sid) == sid \in store

----------------------------------------------------------------------------
(* Archiver.Save, one step per operation on the Map or on the store *)

IdleSave ==
    [pc |-> "idle", id |-> NilID, blob |-> ZeroBlob, smap |-> ZeroBlob,
     ret |-> ZeroBlob, err |-> FALSE, hit |-> FALSE, up |-> 0]

\* the call Save(backend.Data, id, ...) as it starts
NewSave(id) == [IdleSave EXCEPT !.pc = "find", !.id = id]

\* Save returns (b, nil) or (Blob{}, err): the history of the run notes it
RecordReturn(h, id, b, e) ==
    IF e THEN [h EXCEPT !.errd = @ \cup {id}]
    ELSE [h EXCEPT !.saved = @ \cup {[id |-> id, blob |-> b]}]

\* a Save that never takes the early return
SaveKnownNever(found) == FALSE

\* line 144: the blob is already known when FindID found a record
SaveKnown(found) == found # {}

\* lines 143-148: FindID, and the early return of the known record
SaveFindID(p) ==
    /\ ~panicked
    /\ sv[p].pc = "find"
    /\ LET found == FindID(index, sv[p].id)
       IN  IF SaveKnown(found)
           THEN LET b == CHOOSE x \in found : TRUE
                IN  /\ sv' = [sv EXCEPT ![p].pc = "ret", ![p].ret = b,
                                        ![p].hit = (found # {})]
                    /\ hist' = RecordReturn(hist, sv[p].id, b, FALSE)
           ELSE /\ sv' = [sv EXCEPT ![p].pc = "upload",
                                    ![p].hit = (found # {})]
                /\ UNCHANGED hist
    /\ UNCHANGED <<index, store, nextSid, tokens, sf, st, panicked>>
    /\ UNCHANGED otherThanSaver

\* line 151: arch.s.SaveFrom succeeds: a fresh storage id holds the chunk
SaveFromOk(p) ==
    /\ ~panicked
    /\ sv[p].pc = "upload"
    /\ LET sid == nextSid + 1
           id == sv[p].id
       IN  /\ nextSid' = sid
           /\ store' = store \cup {sid}
           /\ sv' = [sv EXCEPT ![p].pc = "insert",
                               ![p].blob = Blob(id, sid, ChunkLength(id)),
                               ![p].up = @ + 1]
           /\ hist' = [hist EXCEPT !.calls[id] = @ + 1,
                                   !.uploaded = @ \cup {[ID |-> id, Storage |-> sid]}]
    /\ UNCHANGED <<index, tokens, sf, st, panicked>>
    /\ UNCHANGED otherThanSaver

\* line 151: arch.s.SaveFrom fails: it returns (Blob{}, err), and Save goes on
\* without looking at err
SaveFromFail(p) ==
    /\ ~panicked
    /\ sv[p].pc = "upload"
    /\ hist.fails < MaxFail
    /\ sv' = [sv EXCEPT ![p].pc = "insert", ![p].blob = ZeroBlob,
                        ![p].up = @ + 1]
    /\ hist' = [hist EXCEPT !.calls[sv[p].id] = @ + 1, !.fails = @ + 1]
    /\ UNCHANGED <<index, store, nextSid, tokens, sf, st, panicked>>
    /\ UNCHANGED otherThanSaver

\* line 159: the Map holds another storage id for this plaintext
SaveLostRace(blob, smapblob) == blob.Storage # smapblob.Storage

\* lines 154-172: Insert, the comparison of the storage ids, and the return
\* when the Map kept this call's record
SaveInsert(p) ==
    /\ ~panicked
    /\ sv[p].pc = "insert"
    /\ LET blob == sv[p].blob
           smapblob == InsertResult(index, blob)
       IN  /\ index' = Insert(index, blob)
           /\ IF SaveLostRace(blob, smapblob)
              THEN /\ sv' = [sv EXCEPT ![p].pc = "remove", ![p].smap = smapblob]
                   /\ UNCHANGED hist
              ELSE /\ sv' = [sv EXCEPT ![p].pc = "ret", ![p].blob = ZeroBlob,
                                       ![p].ret = smapblob]
                   /\ hist' = RecordReturn(hist, sv[p].id, smapblob, FALSE)
    /\ UNCHANGED <<store, nextSid, tokens, sf, st, panicked>>
    /\ UNCHANGED otherThanSaver

\* lines 164-172: arch.s.Remove of the redundant object succeeds
SaveRemoveOk(p) ==
    /\ ~panicked
    /\ sv[p].pc = "remove"
    /\ store' = store \ {sv[p].blob.Storage}
    /\ sv' = [sv EXCEPT ![p].pc = "ret", ![p].ret = sv[p].smap,
                        ![p].blob = ZeroBlob, ![p].smap = ZeroBlob]
    /\ hist' = RecordReturn(hist, sv[p].id, sv[p].smap, FALSE)
    /\ UNCHANGED <<index, nextSid, tokens, sf, st, panicked>>
    /\ UNCHANGED otherThanSaver

\* lines 164-167: arch.s.Remove fails: Save returns (Blob{}, err)
SaveRemoveFail(p) ==
    /\ ~panicked
    /\ sv[p].pc = "remove"
    /\ hist.fails < MaxFail
    /\ sv' = [sv EXCEPT ![p].pc = "ret", ![p].ret = ZeroBlob, ![p].err = TRUE,
                        ![p].blob = ZeroBlob, ![p].smap = ZeroBlob]
    /\ hist' = [RecordReturn(hist, sv[p].id, ZeroBlob, TRUE)
                    EXCEPT !.fails = @ + 1]
    /\ UNCHANGED <<index, store, nextSid, tokens, sf, st, panicked>>
    /\ UNCHANGED otherThanSaver

----------------------------------------------------------------------------
(* Archiver.SaveFile *)

RECURSIVE SeqsUpTo(_, _)
\* the sequences over S of length at most n
SeqsUpTo(S, n) ==
    IF n = 0 THEN {<<>>}
    ELSE LET shorter == SeqsUpTo(S, n - 1)
         IN  shorter \cup {Append(q, x) : q \in shorter, x \in S}

\* what the chunker can split a file into: the digests of its chunks, in order
ChunkLists == SeqsUpTo(DataIDs, MaxChunks)

RECURSIVE SumLengths(_)
\* the bytes of a file whose chunks are q
SumLengths(q) == IF q = <<>> THEN 0 ELSE ChunkLength(Head(q)) + SumLengths(Tail(q))

RECURSIVE SumSizes(_)
\* line 291: bytes += blob.Size over the blobs
SumSizes(blobs) == IF blobs = <<>> THEN 0 ELSE Head(blobs).Size + SumSizes(Tail(blobs))

IdleFile ==
    [pc |-> "idle", chunks |-> <<>>, size |-> 0, n |-> 0, blobs |-> <<>>,
     content |-> <<>>, overtaken |-> FALSE]

\* lines 208-243: SaveFile(p, node) opens the file of node and resets the
\* chunker; node.Size is the size the walker saw
SaveFileStart(w, chunks) ==
    [IdleFile EXCEPT !.pc = "chunk", !.chunks = chunks, !.size = SumLengths(chunks)]

\* a SaveFile that does not compare the bytes saved with node.Size
SaveFileSizeOkAnyway(bytes, size) == TRUE

\* a SaveFile that starts a goroutine whether or not a token is there
blobTokenReadyAlways(t) == TRUE

\* line 258: token := <-arch.blobToken goes on only when the channel holds a
\* token
blobTokenReady(t) == t > 0

\* lines 246-273: chnker.Next yields a chunk: take a token, start the goroutine
\* that saves the chunk, and remember its result channel
SaveFileChunk(w) ==
    /\ ~panicked
    /\ sf[w].pc = "chunk"
    /\ sf[w].n < Len(sf[w].chunks)
    /\ blobTokenReady(tokens)
    /\ tokens' = tokens - 1
    /\ sf' = [sf EXCEPT ![w].n = @ + 1]
    /\ sv' = [sv EXCEPT ![<<w, sf[w].n + 1>>] = NewSave(sf[w].chunks[sf[w].n + 1])]
    /\ UNCHANGED <<index, store, nextSid, st, panicked, hist>>
    /\ UNCHANGED otherThanSaver

\* lines 246-249: chnker.Next returns io.EOF: leave the loop
SaveFileEOF(w) ==
    /\ ~panicked
    /\ sf[w].pc = "chunk"
    /\ sf[w].n = Len(sf[w].chunks)
    /\ sf' = [sf EXCEPT ![w].pc = "collect"]
    /\ UNCHANGED <<index, store, nextSid, tokens, sv, st, panicked, hist>>
    /\ UNCHANGED otherThanSaver

\* a goroutine that keeps its token
blobTokenKept(t) == t

\* line 269: arch.blobToken <- token puts the token back
blobTokenBack(t) == t + 1

\* lines 262-270: the goroutine after Save returned: panic on an error, else
\* put the token back and send the blob on the result channel (both channels
\* have room, neither send blocks). overtaken notes, for the history, that an
\* earlier chunk of the file was still being saved
SaveFileGoroutineEnd(p) ==
    /\ ~panicked
    /\ sv[p].pc = "ret"
    /\ IF sv[p].err
       THEN /\ panicked' = TRUE
            /\ UNCHANGED <<tokens, sv, sf>>
       ELSE /\ tokens' = blobTokenBack(tokens)
            /\ sv' = [sv EXCEPT ![p].pc = "sent"]
            /\ sf' = [sf EXCEPT ![p[1]].overtaken =
                            @ \/ \E j \in 1..(p[2] - 1) : sv[<<p[1], j>>].pc # "sent"]
            /\ UNCHANGED panicked
    /\ UNCHANGED <<index, store, nextSid, st, hist>>
    /\ UNCHANGED otherThanSaver

\* a SaveFile that reads the result channels last to first
ChanOfReversed(w, k) == <<w, sf[w].n + 1 - k>>

\* the channel SaveFile reads for its k-th blob (line 277 ranges over chans in
\* the order of the appends of line 273)
ChanOf(w, k) == <<w, k>>

\* lines 277-279: blobs = append(blobs, <-ch), for the next channel of chans
SaveFileCollect(w) ==
    /\ ~panicked
    /\ sf[w].pc = "collect"
    /\ Len(sf[w].blobs) < sf[w].n
    /\ LET ch == ChanOf(w, Len(sf[w].blobs) + 1)
       IN  /\ sv[ch].pc = "sent"
           /\ sf' = [sf EXCEPT ![w].blobs = Append(@, sv[ch].ret)]
           /\ sv' = [sv EXCEPT ![ch] = IdleSave]
    /\ UNCHANGED <<index, store, nextSid, tokens, st, panicked, hist>>
    /\ UNCHANGED otherThanSaver

\* lines 296-298: the size check that ends SaveFile
SaveFileSizeOk(bytes, size) == bytes = size

\* lines 281-302: all blobs are in: node.Content is filled from them, then the
\* saved bytes are compared with node.Size
SaveFileFinish(w) ==
    /\ ~panicked
    /\ sf[w].pc = "collect"
    /\ Len(sf[w].blobs) = sf[w].n
    /\ LET blobs == sf[w].blobs
           content == [i \in 1..Len(blobs) |-> blobs[i].ID]
       IN  sf' = [sf EXCEPT
                    ![w].content = content,
                    ![w].pc = IF Len(blobs) # sf[w].n THEN "err"
                              ELSE IF SaveFileSizeOk(SumSizes(blobs), sf[w].size)
                                   THEN "ok" ELSE "err"]
    /\ UNCHANGED <<index, store, nextSid, tokens, sv, st, panicked, hist>>
    /\ UNCHANGED otherThanSaver

----------------------------------------------------------------------------
(* The callers of SaveFile and the other writers of arch.m *)

\* lines 261-262: a goroutine of some SaveFile call enters Save with the
\* digest of its chunk (the calls start in the order of their numbers)
goSave(c, id) ==
    /\ sv[c].pc = "idle"
    /\ IF c[2] = 1 THEN TRUE ELSE sv[<<"call", c[2] - 1>>].pc # "idle"
    /\ sv' = [sv EXCEPT ![c] = NewSave(id)]
    /\ UNCHANGED <<index, store, nextSid, tokens, sf, st, panicked, hist>>
    /\ UNCHANGED otherThanSaver

\* lines 464-466: a file worker calls SaveFile for a file node without content
\* (the workers are alike: the first file of a run goes to w1)
fileWorkerSaveFile(w, chunks) ==
    /\ ~panicked
    /\ sf[w].pc = "idle"
    /\ hist.files < MaxFiles
    /\ hist.files = 0 => w = "w1"
    /\ sf' = [sf EXCEPT ![w] = SaveFileStart(w, chunks)]
    /\ hist' = [hist EXCEPT !.files = @ + 1]
    /\ UNCHANGED <<index, store, nextSid, tokens, sv, st, panicked>>
    /\ UNCHANGED otherThanSaver

\* lines 466-469: SaveFile returned to the file worker, which panics on an error
fileWorkerSaved(w) ==
    /\ ~panicked
    /\ sf[w].pc \in {"ok", "err"}
    /\ IF sf[w].pc = "err"
       THEN /\ panicked' = TRUE
            /\ UNCHANGED sf
       ELSE /\ sf' = [sf EXCEPT ![w] = IdleFile]
            /\ UNCHANGED panicked
    /\ UNCHANGED <<index, store, nextSid, tokens, sv, st, hist>>
    /\ UNCHANGED otherThanSaver

\* the blobs a child node can bring to a directory worker: those a Save call
\* returned, and those of an old node whose objects the file worker found in
\* the store (lines 446-456)
NodeBlobs ==
    {r.blob : r \in {x \in hist.saved : x.blob.ID # NilID}}
        \cup {b \in OldBlobs : Test(b.Storage)}

\* lines 510-513: a directory worker inserts a blob of a child into arch.m
dirWorkerInsert(b) ==
    /\ b \in NodeBlobs
    /\ index' = Insert(index, b)
    /\ index' # index
    /\ UNCHANGED <<store, nextSid, tokens, sv, sf, st, panicked, hist>>
    /\ UNCHANGED otherThanSaver

\* the trees saveTree is called with: a file node with one chunk, and the
\* tree's own Map, which holds records of earlier snapshots
TreeMaps == {m \in SUBSET OldBlobs : IsMap(m)}

IdleTree ==
    [pc |-> "idle", map |-> {}, content |-> <<>>, k |-> 0, removeContent |-> FALSE,
     resaved |-> FALSE, file |-> <<>>, nodeErr |-> FALSE, Error |-> FALSE,
     tree |-> [Content |-> <<>>, Error |-> FALSE, Map |-> {}]]

\* lines 305-310: saveTree(p, t) merges t.Map into arch.m
saveTreeMerge(tmap, content) ==
    /\ st.pc = "idle"
    /\ index' = Merge(index, tmap)
    /\ st' = [IdleTree EXCEPT !.pc = "check", !.map = tmap, !.content = content, !.k = 1]
    /\ UNCHANGED <<store, nextSid, tokens, sv, sf, panicked, hist>>
    /\ UNCHANGED otherThanSaver

\* lines 328-344: the content id is not in t.Map, or its object is not in the
\* store
saveTreeMissing(tmap, id) ==
    LET found == FindID(tmap, id)
    IN  \/ found = {}
        \/ \E blob \in found : ~Test(blob.Storage)

\* lines 327-345: one round of the loop over node.Content
saveTreeCheck ==
    /\ st.pc = "check"
    /\ st.k <= Len(st.content)
    /\ LET id == st.content[st.k]
       IN  IF saveTreeMissing(st.map, id)
           THEN /\ st' = [st EXCEPT !.removeContent = TRUE, !.k = @ + 1,
                                    !.map = DeleteID(@, id)]
                /\ index' = DeleteID(index, id)
                /\ hist' = [hist EXCEPT !.deleted = @ \cup {id}]
           ELSE /\ st' = [st EXCEPT !.k = @ + 1]
                /\ UNCHANGED <<index, hist>>
    /\ UNCHANGED <<store, nextSid, tokens, sv, sf, panicked>>
    /\ UNCHANGED otherThanSaver

\* lines 347-350: after the loop, node.Content is emptied when a chunk was missing
saveTreeChecked ==
    /\ st.pc = "check"
    /\ st.k > Len(st.content)
    /\ st' = [st EXCEPT !.pc = "checked",
                        !.content = IF st.removeContent THEN <<>> ELSE @]
    /\ UNCHANGED <<index, store, nextSid, tokens, sv, sf, panicked, hist>>
    /\ UNCHANGED otherThanSaver

----------------------------------------------------------------------------
(* Spec: the saver layer *)

InitHist ==
    [calls |-> [d \in DataIDs |-> 0], uploaded |-> {}, saved |-> {}, errd |-> {},
     deleted |-> {}, fails |-> 0, files |-> 0]

\* NewArchiver (lines 39-60) followed by Preload (lines 64-137): the token
\* channel is full, and arch.m holds what the trees of the repository list,
\* whether or not the store still has those objects
InitSaver ==
    /\ index \in {m \in SUBSET OldBlobs : IsMap(m)}
    /\ store \in SUBSET (1..NOld)
    /\ nextSid = NOld
    /\ tokens = maxConcurrentBlobs
    /\ sv = [p \in Procs |-> IdleSave]
    /\ sf = [w \in Workers |-> IdleFile]
    /\ st = IdleTree
    /\ panicked = FALSE
    /\ hist = InitHist

\* Preload is not running
NoPreload == [pc |-> "off"]

\* no worker of Snapshot runs
NoPipeline ==
    /\ pre = NoPreload
    /\ split = [pc |-> "off"]
    /\ fw = [w \in Workers |-> [pc |-> "off"]]
    /\ dw = [v \in DirWorkers |-> [pc |-> "off"]]
    /\ results = <<>>
    /\ tindex = {}
    /\ snap = [pc |-> "off"]
    /\ done = FALSE
    /\ walkErr = FALSE

\* Spec and SpecFile leave the stage of compare and the workers alone
Init ==
    /\ InitSaver
    /\ oldCh = <<>>
    /\ newCh = <<>>
    /\ cmp = [pc |-> "off"]
    /\ walked = [old |-> <<>>, new |-> <<>>, sent |-> <<>>]
    /\ NoPipeline

SaveStep(p) ==
    \/ SaveFindID(p)
    \/ SaveFromOk(p)
    \/ SaveFromFail(p)
    \/ SaveInsert(p)
    \/ SaveRemoveOk(p)
    \/ SaveRemoveFail(p)

Next ==
    \/ \E c \in Calls, id \in DataIDs : goSave(c, id)
    \/ \E c \in Calls : SaveStep(c)
    \/ \E b \in OldBlobs \cup {r.blob : r \in hist.saved} : dirWorkerInsert(b)
    \/ \E tmap \in TreeMaps, d \in DataIDs : saveTreeMerge(tmap, <<d>>)
    \/ saveTreeCheck
    \/ saveTreeChecked

Spec == Init /\ [][Next]_vars

----------------------------------------------------------------------------
(* SpecFile: SaveFile calls of the file workers *)

SaveFileStep(w) ==
    \/ SaveFileChunk(w)
    \/ SaveFileEOF(w)
    \/ SaveFileCollect(w)
    \/ SaveFileFinish(w)

\* the goroutines of the SaveFile calls
Goroutines == Workers \X (1..MaxChunks)

\* nothing runs after a panic
NextFile ==
    \/ \E w \in Workers, chunks \in ChunkLists : fileWorkerSaveFile(w, chunks)
    \/ \E w \in Workers : SaveFileStep(w)
    \/ \E p \in Goroutines : SaveStep(p)
    \/ \E p \in Goroutines : SaveFileGoroutineEnd(p)
    \/ \E w \in Workers : fileWorkerSaved(w)

\* as InitSaver, with every object of the earlier snapshots still in the store
InitFile ==
    /\ Init
    /\ store = 1..NOld

SpecFile == InitFile /\ [][NextFile]_vars

----------------------------------------------------------------------------
(* Claims about Save and SaveFile *)

\* C1 as stated: for every data content-id at most one store.SaveFrom call is
\* made during the run, under every interleaving of the Save calls.
C1_SingleFlight == \A d \in DataIDs : hist.calls[d] <= 1

\* C1 as amended: a Save call makes at most one SaveFrom call, and none when
\* its FindID found the content-id in the Map; Save calls that all looked the
\* content-id up before any of them inserted a record upload it once each.
C1_UploadOnlyAfterMiss ==
    \A p \in Procs : sv[p].up <= 1 /\ (sv[p].hit => sv[p].up = 0)

\* C1 witness: a chunk was uploaded by one goroutine, and a later Save call for
\* the same content-id found it and returned without uploading.
C1_Witness ==
    \E p, q \in Procs :
        /\ p # q
        /\ sv[p].id = sv[q].id
        /\ sv[q].up = 1 /\ sv[q].pc \in {"ret", "sent"}
        /\ sv[p].hit /\ sv[p].pc = "ret" /\ sv[p].up = 0

\* the Save calls for d that are running
InFlight(d) == {p \in Procs : sv[p].id = d /\ sv[p].pc \in {"find", "upload", "insert", "remove"}}

\* the records the Save calls for d returned without error
ReturnedFor(d) == {r.blob : r \in {x \in hist.saved : x.id = d}}

\* the objects of this run's uploads of d that the store still holds
UploadsLeft(d) == {u.Storage : u \in {x \in hist.uploaded : x.ID = d}} \cap store

\* C2 as stated: once all Save calls for a content-id have returned without
\* error (and no saveTree deleted its record meanwhile), all of them returned
\* the same record, the store holds the object of that record and no other
\* upload of the content-id.
C2_RaceReconciled ==
    \A d \in DataIDs :
        (/\ InFlight(d) = {}
         /\ ReturnedFor(d) # {}
         /\ d \notin hist.errd
         /\ d \notin hist.deleted)
        => \E r \in ReturnedFor(d) :
              /\ ReturnedFor(d) = {r}
              /\ r.ID = d
              /\ r.Storage \in store \/ r \in OldBlobs
              /\ UploadsLeft(d) \subseteq {r.Storage}

\* C3 as stated: whenever a Save call has returned a record without error,
\* FindID of its content-id on arch.m returns exactly that record, from then on.
C3_FindIDReturnsSaved ==
    \A r \in hist.saved : FindID(index, r.id) = {r.blob}

\* C10: a successful SaveFile returns the blobs, and sets node.Content, in the
\* order of the chunks: element i is the content-id of chunk i, and there are
\* as many elements as chunks.
C10_ChunkOrder ==
    \A w \in Workers :
        sf[w].pc = "ok" =>
            /\ Len(sf[w].content) = Len(sf[w].chunks)
            /\ Len(sf[w].blobs) = Len(sf[w].chunks)
            /\ \A i \in 1..Len(sf[w].chunks) :
                  /\ sf[w].content[i] = sf[w].chunks[i]
                  /\ sf[w].blobs[i].ID = sf[w].chunks[i]

\* C10 witness: SaveFile succeeded for a file of two different chunks whose
\* second chunk was saved before the first.
C10_Witness ==
    \E w \in Workers :
        /\ sf[w].pc = "ok"
        /\ sf[w].overtaken
        /\ Len(sf[w].chunks) = 2
        /\ sf[w].chunks[1] # sf[w].chunks[2]

----------------------------------------------------------------------------
(* The two walkers (pipe.Walk and WalkTree are not part of the sources; they *)
(* follow sections 4.4 and 4.5 of the specification: depth first, the      *)
(* entries of a directory by name, the job of a directory after the jobs of *)
(* its entries, whose result channels it carries)                          *)

\* A path is the sequence of its names, a name a number that stands for a
\* letter: <<1, 3, 4>> is "a/c/d". The paths of the model, under two top-level
\* paths:
Paths == {<<0>>, <<1>>, <<1, 2>>, <<1, 3>>, <<1, 3, 4>>, <<1, 5>>}

NoNode == [Type |-> "none", ModTime |-> 0, Size |-> 0]
Absent == [Type |-> "absent", ModTime |-> 0, Size |-> 0]
DirInfo == [Type |-> "dir", ModTime |-> 0, Size |-> 0]
FileInfo(mtime, size) == [Type |-> "file", ModTime |-> mtime, Size |-> size]
SymlinkInfo == [Type |-> "symlink", ModTime |-> 1, Size |-> 0]

\* what a path can be in a tree of the model
Kinds(p) ==
    CASE p = <<0>> -> {Absent, FileInfo(1, 1)}
      [] p = <<1>> -> {Absent, DirInfo}
      [] p = <<1, 2>> -> {Absent, FileInfo(1, 1), FileInfo(2, 1), FileInfo(1, 2)}
      [] p = <<1, 3>> -> {Absent, FileInfo(1, 1), DirInfo}
      [] p = <<1, 3, 4>> -> {Absent, FileInfo(1, 1)}
      [] p = <<1, 5>> -> {Absent, FileInfo(1, 1), SymlinkInfo}

\* filepath.Dir: <<>> stands for ".", the directory of a top-level path
Dir(p) == SubSeq(p, 1, Len(p) - 1)

\* the trees: what is present lies in a directory that is present
Trees ==
    {t \in [Paths -> UNION {Kinds(p) : p \in Paths}] :
        /\ \A p \in Paths : t[p] \in Kinds(p)
        /\ \A p \in Paths : (t[p] # Absent /\ Len(p) > 1) => t[Dir(p)] = DirInfo}

RECURSIVE StringLess(_, _)
\* Go's < on the strings of two paths: byte by byte; "/" sorts before every
\* letter and "." before "/", so a path sorts after its prefixes
StringLess(p, q) ==
    IF q = <<>> THEN FALSE
    ELSE IF p = <<>> THEN TRUE
    ELSE IF Head(p) # Head(q) THEN Head(p) < Head(q)
    ELSE StringLess(Tail(p), Tail(q))

IsPrefix(p, q) == Len(p) < Len(q) /\ SubSeq(q, 1, Len(p)) = p

\* the walkers send p before q: an entry before the directory it lies in,
\* otherwise by name
WalkBefore(p, q) ==
    IF IsPrefix(q, p) THEN TRUE
    ELSE IF IsPrefix(p, q) THEN FALSE
    ELSE StringLess(p, q)

RECURSIVE WalkOrder(_)
\* the paths of S in the order the walkers send them
WalkOrder(S) ==
    IF S = {} THEN <<>>
    ELSE LET first == CHOOSE p \in S : \A q \in S \ {p} : WalkBefore(p, q)
         IN  <<first>> \o WalkOrder(S \ {first})

Present(t) == {p \in Paths : t[p] # Absent}

\* pipe.Walk: an Entry for a file or a symlink, a Dir for a directory; no job
\* carries an old Node yet
NewJob(t, p) == [Path |-> p, Info |-> t[p], Node |-> NoNode]

\* WalkTree: the job of a directory carries its Tree and no Node
OldJob(t, p) == [Path |-> p, Node |-> IF t[p] = DirInfo THEN NoNode ELSE t[p]]

NewStream(t) == LET o == WalkOrder(Present(t)) IN [i \in 1..Len(o) |-> NewJob(t, o[i])]
OldStream(t) == LET o == WalkOrder(Present(t)) IN [i \in 1..Len(o) |-> OldJob(t, o[i])]

----------------------------------------------------------------------------
(* archiveJob.Copy, ArchivePipe.compare and copyJobs *)

NoOld == [Path |-> <<>>, Node |-> NoNode]
NoJob == [Path |-> <<>>, Info |-> Absent, Node |-> NoNode]

\* lines 836-842
isFile(fi) == fi.Type = "file"

\* Node.isNewer (node.go is not part of the sources; section 4.6 and the design
\* notes: another type, another mtime or another size)
isNewer(node, fi) ==
    \/ node.Type # "file"
    \/ node.ModTime # fi.ModTime
    \/ node.Size # fi.Size

\* a Copy that hands the old Node on whenever there is one
CopyUnchecked(hasOld, old, new) ==
    IF hasOld /\ old.Node # NoNode THEN [new EXCEPT !.Node = old.Node] ELSE new

\* lines 688-717: archiveJob{hasOld, old, new}.Copy()
Copy(hasOld, old, new) ==
    IF ~hasOld THEN new
    ELSE IF isFile(new.Info)
         THEN IF old.Node = NoNode THEN new
              ELSE IF isNewer(old.Node, new.Info) THEN new
              ELSE [new EXCEPT !.Node = old.Node]
         ELSE new

\* lines 613-619: the locals of compare as its loop starts
CompareStart ==
    [pc |-> "loop", loadOld |-> TRUE, loadNew |-> TRUE, oldJob |-> NoOld,
     newJob |-> NoJob, hasOld |-> FALSE, out |-> NoJob]

\* a compare that forgets the new job it holds when a.Old is closed
compareHeldNever(c) == FALSE

\* lines 628-631: when a.Old is closed and a new job is held, it is sent
compareHeld(c) == ~c.loadNew

\* lines 622-638: the receive from a.Old; when it is closed the new job that is
\* still held goes out, and copyJobs takes over
compareLoadOld ==
    /\ ~panicked
    /\ cmp.pc = "loop"
    /\ cmp.loadOld
    /\ IF oldCh = <<>>
       THEN /\ cmp' = IF compareHeld(cmp)
                      THEN [cmp EXCEPT !.pc = "sendLast", !.hasOld = FALSE,
                                       !.out = Copy(FALSE, NoOld, cmp.newJob)]
                      ELSE [cmp EXCEPT !.pc = "copyRecv"]
            /\ UNCHANGED oldCh
       ELSE /\ cmp' = [cmp EXCEPT !.oldJob = Head(oldCh), !.loadOld = FALSE]
            /\ oldCh' = Tail(oldCh)
    /\ UNCHANGED <<newCh, walked>>
    /\ UNCHANGED otherThanCompare

\* lines 640-649: the receive from a.New; when it is closed compare returns,
\* and its deferred close(out) runs
compareLoadNew ==
    /\ ~panicked
    /\ cmp.pc = "loop"
    /\ ~cmp.loadOld
    /\ cmp.loadNew
    /\ IF newCh = <<>>
       THEN /\ cmp' = [cmp EXCEPT !.pc = "done"]
            /\ UNCHANGED newCh
       ELSE /\ cmp' = [cmp EXCEPT !.newJob = Head(newCh), !.loadNew = FALSE]
            /\ newCh' = Tail(newCh)
    /\ UNCHANGED <<oldCh, walked>>
    /\ UNCHANGED otherThanCompare

\* the test of line 669 the other way round
compareAddedSwapped(dir1, dir2) == StringLess(dir2, dir1)

\* line 669: the test that takes the new job for an added file
compareAdded(dir1, dir2) == StringLess(dir1, dir2)

\* lines 654-685: both jobs are held: compare the paths
compareJobs ==
    /\ ~panicked
    /\ cmp.pc = "loop"
    /\ ~cmp.loadOld
    /\ ~cmp.loadNew
    /\ LET file1 == cmp.oldJob.Path
           file2 == cmp.newJob.Path
           dir1 == Dir(file1)
           dir2 == Dir(file2)
       IN  cmp' =
             IF file1 = file2
             THEN [cmp EXCEPT !.pc = "sendJoined", !.hasOld = TRUE,
                              !.out = Copy(TRUE, cmp.oldJob, cmp.newJob)]
             ELSE IF compareAdded(dir1, dir2)
             THEN [cmp EXCEPT !.pc = "sendNew", !.loadNew = TRUE, !.hasOld = FALSE,
                              !.out = Copy(FALSE, NoOld, cmp.newJob)]
             ELSE IF dir1 = dir2 /\ StringLess(file1, file2)
             THEN [cmp EXCEPT !.loadOld = TRUE]
             ELSE [cmp EXCEPT !.loadOld = TRUE]
    /\ UNCHANGED <<oldCh, newCh, walked>>
    /\ UNCHANGED otherThanCompare

\* lines 586-593 of copyJobs: the receive from in; when it is closed copyJobs
\* and compare return (Snapshot never closes done, line 726, so the case of
\* line 584 is never taken)
copyJobsReceive ==
    /\ ~panicked
    /\ cmp.pc = "copyRecv"
    /\ IF newCh = <<>>
       THEN /\ cmp' = [cmp EXCEPT !.pc = "done"]
            /\ UNCHANGED newCh
       ELSE /\ cmp' = [cmp EXCEPT !.pc = "copySend", !.newJob = Head(newCh),
                                  !.hasOld = FALSE, !.out = Head(newCh)]
            /\ newCh' = Tail(newCh)
    /\ UNCHANGED <<oldCh, walked>>
    /\ UNCHANGED otherThanCompare

\* compare (or its copyJobs) is blocked in a send on out
Sending == cmp.pc \in {"sendJoined", "sendNew", "sendLast", "copySend"}

\* the locals of compare once the receiver has taken cmp.out: line 665-668,
\* line 673-674, line 630-633, lines 594-596
Delivered(c) ==
    CASE c.pc = "sendJoined" -> [c EXCEPT !.pc = "loop", !.loadOld = TRUE, !.loadNew = TRUE]
      [] c.pc = "sendNew" -> [c EXCEPT !.pc = "loop"]
      [] c.pc = "sendLast" -> [c EXCEPT !.pc = "copyRecv"]
      [] c.pc = "copySend" -> [c EXCEPT !.pc = "copyRecv"]

\* the history of a send: what Copy was called with, and what went out
SentRecord(c) ==
    [via |-> c.pc, hasOld |-> c.hasOld, old |-> c.oldJob, new |-> c.newJob, out |-> c.out]

\* the receiver of out takes the job compare is sending (out is unbuffered:
\* the send and the receive are one step)
compareSend ==
    /\ split.pc = "off"
    /\ Sending
    /\ cmp' = Delivered(cmp)
    /\ walked' = [walked EXCEPT !.sent = Append(@, SentRecord(cmp))]
    /\ UNCHANGED <<oldCh, newCh>>
    /\ UNCHANGED otherThanCompare

----------------------------------------------------------------------------
(* SpecCompare: compare on every pair of streams of the two walkers *)

InitCompare ==
    /\ InitSaver
    /\ index = {}
    /\ store = {}
    /\ \E told \in Trees, tnew \in Trees :
          /\ oldCh = OldStream(told)
          /\ newCh = NewStream(tnew)
          /\ walked = [old |-> OldStream(told), new |-> NewStream(tnew), sent |-> <<>>]
    /\ cmp = CompareStart
    /\ NoPipeline

NextCompare ==
    \/ compareLoadOld
    \/ compareLoadNew
    \/ compareJobs
    \/ copyJobsReceive
    \/ compareSend

SpecCompare == InitCompare /\ [][NextCompare]_vars

\* the scheduler runs compare and the receiver of out
SpecCompareLive == SpecCompare /\ WF_vars(NextCompare)

----------------------------------------------------------------------------
(* Claims about compare and Copy *)

PathsOf(stream) == {stream[i].Path : i \in 1..Len(stream)}

\* C6 as stated: a path that occurs in both streams is sent as a joined job
\* (Copy was called with hasOld = true), never as a new-only job.
C6_NoSpuriousAddition ==
    \A i \in 1..Len(walked.sent) :
        walked.sent[i].out.Path \in PathsOf(walked.old) => walked.sent[i].hasOld

\* what compare has sent is the start of the new stream, job for job
SentIsPrefixOfNew ==
    /\ Len(walked.sent) <= Len(walked.new)
    /\ \A i \in 1..Len(walked.sent) :
          /\ walked.sent[i].new = walked.new[i]
          /\ walked.sent[i].out.Path = walked.new[i].Path
          /\ walked.sent[i].out.Info = walked.new[i].Info

\* compare has returned (and closed out) after sending the whole new stream
ComparedAll ==
    /\ cmp.pc = "done"
    /\ newCh = <<>>
    /\ Len(walked.sent) = Len(walked.new)

\* C7: the jobs compare sends are the jobs of the new stream, each once and in
\* the order received, whatever the old stream holds; and compare ends, with
\* all of them sent, once the new stream is closed.
C7_NewStreamForwarded ==
    /\ [](SentIsPrefixOfNew /\ (cmp.pc = "done" => ComparedAll))
    /\ <>[]ComparedAll

\* C7 witness: compare has returned after it sent the job it held when the old
\* stream closed and jobs through copyJobs, with a path only the old stream had.
C7_Witness ==
    /\ ComparedAll
    /\ \E i, j \in 1..Len(walked.sent) :
          walked.sent[i].via = "sendLast" /\ walked.sent[j].via = "copySend"
    /\ PathsOf(walked.old) \ PathsOf(walked.new) # {}

\* compare holds an old and a new job with different paths and is about to
\* compare them
Comparing ==
    /\ cmp.pc = "loop" /\ ~cmp.loadOld /\ ~cmp.loadNew
    /\ cmp.oldJob.Path # cmp.newJob.Path

\* the new job goes out as it came, only the new side advances
TakesNewOnly ==
    /\ cmp'.pc = "sendNew"
    /\ cmp'.out = cmp.newJob /\ cmp'.out.Node = NoNode /\ ~cmp'.hasOld
    /\ cmp'.loadNew /\ ~cmp'.loadOld
    /\ cmp'.oldJob = cmp.oldJob

\* C8 as stated: when the held paths differ and dir(new.path) < dir(old.path),
\* the new job is sent new-only, only the new side advances and the old job
\* is kept.
C8_AddedWhenNewDirLess ==
    [][(Comparing /\ StringLess(Dir(cmp.newJob.Path), Dir(cmp.oldJob.Path)) /\ cmp' # cmp)
          => TakesNewOnly]_vars

\* C8 as amended: when the held paths differ and dir(old.path) < dir(new.path),
\* the new job is sent new-only, only the new side advances and the old job
\* is kept; in every other case of differing paths the old job is dropped and
\* nothing is sent.
C8_AddedWhenOldDirLess ==
    [][(Comparing /\ cmp' # cmp) =>
          IF StringLess(Dir(cmp.oldJob.Path), Dir(cmp.newJob.Path))
          THEN TakesNewOnly
          ELSE cmp' = [cmp EXCEPT !.loadOld = TRUE]]_vars

\* C8 witness: compare is sending a new job as new-only, the directory of the
\* old job it keeps being less than the directory of the new job.
C8_Witness ==
    /\ cmp.pc = "sendNew"
    /\ ~cmp.loadOld
    /\ cmp.oldJob.Path # cmp.newJob.Path
    /\ StringLess(Dir(cmp.oldJob.Path), Dir(cmp.newJob.Path))

\* the case in which a sent job carries the old Node
Annotated(r) ==
    /\ r.hasOld
    /\ r.new.Info.Type = "file"
    /\ r.old.Node # NoNode
    /\ r.old.Node.Type = "file"
    /\ r.old.Node.ModTime = r.new.Info.ModTime
    /\ r.old.Node.Size = r.new.Info.Size

\* C9: a job goes out with the old Node if and only if it is joined, the new
\* entry is a regular file, the old Node is there and is a file of the same
\* mtime and size; in every other case the new job goes out as it came, with
\* no Node.
C9_AnnotationRule ==
    \A i \in 1..Len(walked.sent) :
        LET r == walked.sent[i]
        IN  /\ r.new.Node = NoNode
            /\ IF Annotated(r)
               THEN r.out = [r.new EXCEPT !.Node = r.old.Node] /\ r.out.Node # NoNode
               ELSE r.out = r.new

\* C9 witness: compare has sent a joined file with its old Node, a joined file
\* that is newer without it, and a joined directory without it.
C9_Witness ==
    \E i, j, k \in 1..Len(walked.sent) :
        /\ Annotated(walked.sent[i]) /\ walked.sent[i].out.Node = walked.sent[i].old.Node
        /\ walked.sent[j].hasOld /\ walked.sent[j].new.Info.Type = "file"
        /\ walked.sent[j].old.Node # NoNode /\ walked.sent[j].out.Node = NoNode
        /\ walked.sent[k].hasOld /\ walked.sent[k].new.Info.Type = "dir"
        /\ walked.sent[k].out.Node = NoNode

----------------------------------------------------------------------------
(* Archiver.Snapshot: pipe.Split, fileWorker, dirWorker and the commit.     *)
(* pipe.Split and the result channels of the jobs are not part of the       *)
(* sources; they follow sections 4.4, 4.7 and 5 of the specification.       *)

\* a result channel that holds nothing; otherwise it holds the Node a worker
\* put in: refs is history, the storage ids the Node refers to, its own blobs
\* and those below it
NoResult ==
    [Type |-> "none", Size |-> 0, Content |-> <<>>, blobs |-> <<>>, Subtree |-> <<>>,
     refs |-> {}]

\* the chunks the chunker cuts the file of the model with this size and mtime
\* into
FileData(fi) ==
    IF fi.Size = 2 THEN <<"d1", "d2">>
    ELSE IF fi.ModTime = 2 THEN <<"d2">> ELSE <<"d1">>

\* Node.Content and Node.blobs of a file node of the parent snapshot, as
\* WalkTree loads them from the tree of the parent: the blobs are those the
\* parent snapshot stored
OldContent(node) == FileData(node)
OldNodeBlobs(node) ==
    [i \in 1..Len(OldContent(node)) |->
        CHOOSE b \in OldBlobs : b.ID = OldContent(node)[i] /\ b.Storage = 1]

\* the storage ids of a sequence of blobs
Storages(blobs) == {blobs[i].Storage : i \in 1..Len(blobs)}

RECURSIVE InsertAll(_, _)
\* Map.Insert of each blob of a sequence, in order
InsertAll(m, blobs) ==
    IF blobs = <<>> THEN m ELSE InsertAll(Insert(m, Head(blobs)), Tail(blobs))

\* pipe.Dir.Entries: the result channels of the entries of a directory, by
\* name; those of the top-level paths for the root, <<>>
Entries(path) == WalkOrder({p \in PathsOf(walked.new) : Dir(p) = path})

\* Tree.Insert of a child node and tree.Map.Insert of its blobs: what the
\* serialized tree holds for the child
TreeEntry(path, node) ==
    [Name |-> path, Type |-> node.Type, Size |-> node.Size, Content |-> node.Content,
     Subtree |-> node.Subtree,
     Map |-> [i \in 1..Len(node.blobs) |->
                 [Storage |-> node.blobs[i].Storage, Size |-> node.blobs[i].Size]]]

\* every object has this many bytes for the store
TreeLength == 1

pipeOthers == <<tokens, sv, st, oldCh, newCh, done, walkErr, pre>>

\* pipe.Split receives the job compare is sending on its out channel
splitReceive ==
    /\ ~panicked
    /\ split.pc = "recv"
    /\ Sending
    /\ cmp' = Delivered(cmp)
    /\ walked' = [walked EXCEPT !.sent = Append(@, SentRecord(cmp))]
    /\ split' = [pc |-> "send", job |-> cmp.out]
    /\ UNCHANGED <<index, store, nextSid, sf, panicked, hist, fw, dw, results, tindex, snap>>
    /\ UNCHANGED pipeOthers

\* lines 781-787: compare closed its out channel: pipe.Split returns, and
\* dirCh and entCh are closed
splitClose ==
    /\ ~panicked
    /\ split.pc = "recv"
    /\ cmp.pc = "done"
    /\ split' = [pc |-> "closed", job |-> NoJob]
    /\ UNCHANGED <<index, store, nextSid, sf, panicked, hist, fw, dw, results, tindex, snap>>
    /\ UNCHANGED <<cmp, walked>>
    /\ UNCHANGED pipeOthers

\* the workers are alike: of those that wait for a job, one is taken
ReadyWorker(ws, state) == CHOOSE w \in ws : state[w].pc = "recv"

\* lines 443-451: the blobs of the old node are all in the store
contentComplete(oldNode) ==
    \A i \in 1..Len(OldNodeBlobs(oldNode)) : Test(OldNodeBlobs(oldNode)[i].Storage)

\* lines 426-472: a file worker receives an entry from entCh; it takes over the
\* content of the old node when the job has one and its blobs are in the
\* store; a file without content goes to SaveFile, any other node to the
\* result channel of the job
fileWorkerReceive(w) ==
    /\ ~panicked
    /\ split.pc = "send"
    /\ split.job.Info.Type # "dir"
    /\ fw[w].pc = "recv"
    /\ w = ReadyWorker(Workers, fw)
    /\ split' = [pc |-> "recv", job |-> NoJob]
    /\ LET e == split.job
           useOld == IF e.Node # NoNode THEN contentComplete(e.Node) ELSE FALSE
           node == [NoResult EXCEPT
                      !.Type = e.Info.Type,
                      !.Size = e.Info.Size,
                      !.Content = IF useOld THEN OldContent(e.Node) ELSE <<>>,
                      !.blobs = IF useOld THEN OldNodeBlobs(e.Node) ELSE <<>>,
                      !.refs = IF useOld THEN Storages(OldNodeBlobs(e.Node)) ELSE {}]
       IN  IF node.Type = "file" /\ Len(node.Content) = 0
           THEN /\ fw' = [fw EXCEPT ![w] = [pc |-> "save", job |-> e]]
                /\ sf' = [sf EXCEPT ![w] = SaveFileStart(w, FileData(e.Info))]
                /\ UNCHANGED results
           ELSE /\ results' = [results EXCEPT ![e.Path] = node]
                /\ UNCHANGED <<fw, sf>>
    /\ UNCHANGED <<index, store, nextSid, panicked, hist, dw, tindex, snap>>
    /\ UNCHANGED <<cmp, walked>>
    /\ UNCHANGED pipeOthers

\* lines 464-472: SaveFile returned: the worker panics on an error, and puts
\* the node with the blobs into the result channel otherwise
fileWorkerResult(w) ==
    /\ ~panicked
    /\ fw[w].pc = "save"
    /\ sf[w].pc \in {"ok", "err"}
    /\ IF sf[w].pc = "err"
       THEN /\ panicked' = TRUE
            /\ UNCHANGED <<sf, fw, results>>
       ELSE /\ results' = [results EXCEPT ![fw[w].job.Path] =
                              [NoResult EXCEPT !.Type = "file",
                                               !.Size = fw[w].job.Info.Size,
                                               !.Content = sf[w].content,
                                               !.blobs = sf[w].blobs,
                                               !.refs = Storages(sf[w].blobs)]]
            /\ sf' = [sf EXCEPT ![w] = IdleFile]
            /\ fw' = [fw EXCEPT ![w] = [pc |-> "recv", job |-> NoJob]]
            /\ UNCHANGED panicked
    /\ UNCHANGED <<index, store, nextSid, hist, dw, tindex, snap, split>>
    /\ UNCHANGED <<cmp, walked>>
    /\ UNCHANGED pipeOthers

\* lines 426-430: entCh is closed: the file worker returns
fileWorkerExit(w) ==
    /\ ~panicked
    /\ split.pc = "closed"
    /\ fw[w].pc = "recv"
    /\ fw' = [fw EXCEPT ![w].pc = "exit"]
    /\ UNCHANGED <<index, store, nextSid, sf, panicked, hist, dw, results, tindex, snap, split>>
    /\ UNCHANGED <<cmp, walked>>
    /\ UNCHANGED pipeOthers

IdleDir == [pc |-> "recv", job |-> NoJob, k |-> 0, tree |-> <<>>, refs |-> {}]

\* lines 492-500: a directory worker receives a directory from dirCh and makes
\* an empty tree
dirWorkerReceive(v) ==
    /\ ~panicked
    /\ split.pc = "send"
    /\ split.job.Info.Type = "dir"
    /\ dw[v].pc = "recv"
    /\ v = ReadyWorker(DirWorkers, dw)
    /\ split' = [pc |-> "recv", job |-> NoJob]
    /\ dw' = [dw EXCEPT ![v] = [IdleDir EXCEPT !.pc = "wait", !.job = split.job, !.k = 1]]
    /\ UNCHANGED <<index, store, nextSid, sf, panicked, hist, fw, results, tindex, snap>>
    /\ UNCHANGED <<cmp, walked>>
    /\ UNCHANGED pipeOthers

\* lines 503-514: the node of the next entry arrives: it goes into the tree,
\* its blobs into the Map of the tree and into arch.m
dirWorkerChild(v) ==
    /\ ~panicked
    /\ dw[v].pc = "wait"
    /\ LET ents == Entries(dw[v].job.Path)
       IN  /\ dw[v].k <= Len(ents)
           /\ LET path == ents[dw[v].k]
                  node == results[path]
              IN  /\ node.Type # "none"
                  /\ results' = [results EXCEPT ![path] = NoResult]
                  /\ dw' = [dw EXCEPT ![v].k = @ + 1,
                                      ![v].tree = Append(@, TreeEntry(path, node)),
                                      ![v].refs = @ \cup node.refs]
                  /\ IF node.Type = "dir"
                     THEN /\ tindex' = InsertAll(tindex, node.blobs)
                          /\ UNCHANGED index
                     ELSE /\ index' = InsertAll(index, node.blobs)
                          /\ UNCHANGED tindex
    /\ UNCHANGED <<store, nextSid, sf, panicked, hist, fw, snap, split>>
    /\ UNCHANGED <<cmp, walked>>
    /\ UNCHANGED pipeOthers

\* the Node of a directory whose tree is blob
DirNode(blob, refs) ==
    [NoResult EXCEPT !.Type = "dir", !.Subtree = blob.ID, !.blobs = <<blob>>,
                     !.refs = refs \cup {blob.Storage}]

\* a directory worker that does not wait for the entries
allEntriesInAnyway(d) == TRUE

\* lines 503-514: the loop over dir.Entries has ended
allEntriesIn(d) == d.k > Len(Entries(d.job.Path))

\* lines 516-533 with lines 175-189 of SaveTreeJSON: all entries are in; the
\* id of the tree is looked up in arch.m, and a tree that is found is not
\* saved again
dirWorkerFindTree(v) ==
    /\ ~panicked
    /\ dw[v].pc = "wait"
    /\ allEntriesIn(dw[v])
    /\ LET found == FindID(tindex, dw[v].tree)
       IN  IF found # {}
           THEN /\ results' = [results EXCEPT ![dw[v].job.Path] =
                                  DirNode(CHOOSE b \in found : TRUE, dw[v].refs)]
                /\ dw' = [dw EXCEPT ![v] = IdleDir]
           ELSE /\ dw' = [dw EXCEPT ![v].pc = "tree"]
                /\ UNCHANGED results
    /\ UNCHANGED <<index, store, nextSid, sf, panicked, hist, fw, tindex, snap, split>>
    /\ UNCHANGED <<cmp, walked>>
    /\ UNCHANGED pipeOthers

\* lines 191-202 of SaveTreeJSON with lines 523-533: SaveJSON stores the tree,
\* its blob goes into arch.m and, whatever arch.m holds, into the node; the
\* worker panics when SaveJSON fails
dirWorkerSaveTree(v) ==
    /\ ~panicked
    /\ dw[v].pc = "tree"
    /\ \/ LET blob == Blob(dw[v].tree, nextSid + 1, TreeLength)
          IN  /\ nextSid' = nextSid + 1
              /\ store' = store \cup {blob.Storage}
              /\ tindex' = Insert(tindex, blob)
              /\ results' = [results EXCEPT ![dw[v].job.Path] = DirNode(blob, dw[v].refs)]
              /\ dw' = [dw EXCEPT ![v] = IdleDir]
              /\ UNCHANGED <<panicked, hist>>
       \/ /\ hist.fails < MaxFail
          /\ hist' = [hist EXCEPT !.fails = @ + 1]
          /\ panicked' = TRUE
          /\ UNCHANGED <<nextSid, store, tindex, results, dw>>
    /\ UNCHANGED <<index, sf, fw, snap, split>>
    /\ UNCHANGED <<cmp, walked>>
    /\ UNCHANGED pipeOthers

\* lines 492-496: dirCh is closed: the directory worker returns
dirWorkerExit(v) ==
    /\ ~panicked
    /\ split.pc = "closed"
    /\ dw[v].pc = "recv"
    /\ dw' = [dw EXCEPT ![v].pc = "exit"]
    /\ UNCHANGED <<index, store, nextSid, sf, panicked, hist, fw, results, tindex, snap, split>>
    /\ UNCHANGED <<cmp, walked>>
    /\ UNCHANGED pipeOthers

RECURSIVE CanonicalBlobs(_, _)
\* lines 810-814: blob = arch.m.Insert(blob) over the blobs of a node: the
\* records arch.m holds for them afterwards
CanonicalBlobs(m, blobs) ==
    IF blobs = <<>> THEN <<>>
    ELSE <<InsertResult(m, Head(blobs))>> \o CanonicalBlobs(Insert(m, Head(blobs)), Tail(blobs))

RECURSIVE RootTree(_, _, _)
\* lines 803-816: the tree of the top-level nodes; the Map of the tree gets the
\* records arch.m holds
RootTree(ents, m, tm) ==
    IF ents = <<>> THEN <<>>
    ELSE LET node == results[Head(ents)]
             canon == CanonicalBlobs(IF node.Type = "dir" THEN tm ELSE m, node.blobs)
         IN  <<TreeEntry(Head(ents), [node EXCEPT !.blobs = canon])>>
                \o RootTree(Tail(ents),
                            IF node.Type = "dir" THEN m ELSE InsertAll(m, node.blobs),
                            IF node.Type = "dir" THEN InsertAll(tm, node.blobs) ELSE tm)

RECURSIVE RootBlobs(_, _)
\* the blobs of the top-level nodes of a kind, in the order of the nodes
RootBlobs(ents, dirs) ==
    IF ents = <<>> THEN <<>>
    ELSE (IF (results[Head(ents)].Type = "dir") = dirs
          THEN results[Head(ents)].blobs ELSE <<>>) \o RootBlobs(Tail(ents), dirs)

\* the storage ids the root tree refers to
RootRefs(tree, ents) ==
    UNION {results[ents[i]].refs : i \in 1..Len(ents)}
        \cup UNION {Storages(tree[i].Map) : i \in 1..Len(tree)}

\* a Snapshot that does not wait for split and the workers
waitReturnsAnyway == TRUE

\* lines 779-800: wg.Wait() returns: the goroutine of split and all workers
\* have called wg.Done()
waitReturns ==
    /\ split.pc = "closed"
    /\ \A w \in Workers : fw[w].pc = "exit"
    /\ \A v \in DirWorkers : dw[v].pc = "exit"

\* lines 797-824: all workers have returned; the root job of pipe.Walk is
\* there, the nodes of the top-level paths are taken from it, put into the
\* root tree with their blobs, and the tree is saved with SaveTreeJSON;
\* Snapshot returns the error of a SaveJSON that fails
SnapshotTree ==
    /\ ~panicked
    /\ snap.pc = "wait"
    /\ waitReturns
    /\ newCh = <<>>
    /\ ~walkErr
    /\ LET ents == Entries(<<>>)
           tree == RootTree(ents, index, tindex)
           tm == InsertAll(tindex, RootBlobs(ents, TRUE))
           found == FindID(tm, tree)
       IN  /\ \A i \in 1..Len(ents) : results[ents[i]].Type # "none"
           /\ index' = InsertAll(index, RootBlobs(ents, FALSE))
           /\ results' = [p \in Paths |-> NoResult]
           /\ \/ /\ found # {}
                 /\ snap' = [snap EXCEPT !.pc = "tree",
                                          !.tree = (CHOOSE b \in found : TRUE).Storage,
                                          !.refs = RootRefs(tree, ents)
                                                     \cup {(CHOOSE b \in found : TRUE).Storage}]
                 /\ tindex' = tm
                 /\ UNCHANGED <<nextSid, store, hist>>
              \/ /\ found = {}
                 /\ snap' = [snap EXCEPT !.pc = "tree", !.tree = nextSid + 1,
                                          !.refs = RootRefs(tree, ents) \cup {nextSid + 1}]
                 /\ nextSid' = nextSid + 1
                 /\ store' = store \cup {nextSid + 1}
                 /\ tindex' = Insert(tm, Blob(tree, nextSid + 1, TreeLength))
                 /\ UNCHANGED hist
              \/ /\ found = {}
                 /\ hist.fails < MaxFail
                 /\ hist' = [hist EXCEPT !.fails = @ + 1]
                 /\ snap' = [snap EXCEPT !.pc = "failed"]
                 /\ tindex' = tm
                 /\ UNCHANGED <<nextSid, store>>
    /\ UNCHANGED <<sf, panicked, fw, dw, split>>
    /\ UNCHANGED <<cmp, walked>>
    /\ UNCHANGED pipeOthers

\* lines 824-833: the snapshot with the root tree is saved; Snapshot returns
\* its storage id, or the error of a SaveJSON that fails
SnapshotSave ==
    /\ ~panicked
    /\ snap.pc = "tree"
    /\ \/ /\ snap' = [snap EXCEPT !.pc = "committed", !.id = nextSid + 1]
          /\ nextSid' = nextSid + 1
          /\ store' = store \cup {nextSid + 1}
          /\ UNCHANGED hist
       \/ /\ hist.fails < MaxFail
          /\ hist' = [hist EXCEPT !.fails = @ + 1]
          /\ snap' = [snap EXCEPT !.pc = "failed"]
          /\ UNCHANGED <<nextSid, store>>
    /\ UNCHANGED <<index, sf, panicked, fw, dw, results, tindex, split>>
    /\ UNCHANGED <<cmp, walked>>
    /\ UNCHANGED pipeOthers

----------------------------------------------------------------------------
(* SpecSnapshot: Archiver.Snapshot of a file system with a parent snapshot *)

\* the file systems of SpecSnapshot lie under one top-level directory
NewTrees ==
    {t \in Trees : /\ t[<<0>>] = Absent /\ t[<<1, 5>>] = Absent /\ t[<<1>>] # Absent
                   /\ t[<<1, 3>>].Type # "file"
                   /\ \A p \in Paths : t[p].Type = "file" => Len(FileData(t[p])) = 1}

\* the trees of parent snapshots: their files are of one chunk, which an
\* earlier run stored; the tree without entries stands for no parent
ParentTrees ==
    {t \in Trees : /\ t[<<0>>] = Absent /\ t[<<1, 5>>] = Absent /\ t[<<1, 3>>].Type # "file"
                   /\ \A p \in Paths : t[p].Type = "file" => FileData(t[p]) = <<"d1">>}

\* lines 719-796: Snapshot starts the walkers, compare, split and the workers
InitPipeline ==
    /\ pre = NoPreload
    /\ \E told \in ParentTrees, tnew \in NewTrees :
          /\ oldCh = OldStream(told)
          /\ newCh = NewStream(tnew)
          /\ walked = [old |-> OldStream(told), new |-> NewStream(tnew), sent |-> <<>>]
    /\ cmp = CompareStart
    /\ split = [pc |-> "recv", job |-> NoJob]
    /\ fw = [w \in Workers |-> [pc |-> "recv", job |-> NoJob]]
    /\ dw = [v \in DirWorkers |-> IdleDir]
    /\ results = [p \in Paths |-> NoResult]
    /\ tindex = {}
    /\ snap = [pc |-> "wait", tree |-> NilSid, refs |-> {}, id |-> NilSid]
    /\ done = FALSE
    /\ walkErr = FALSE

InitSnapshot == InitSaver /\ InitPipeline

NextSnapshot ==
    \/ compareLoadOld
    \/ compareLoadNew
    \/ compareJobs
    \/ copyJobsReceive
    \/ splitReceive
    \/ splitClose
    \/ \E w \in Workers : fileWorkerReceive(w)
    \/ \E w \in Workers : SaveFileStep(w)
    \/ \E p \in Goroutines : SaveStep(p)
    \/ \E p \in Goroutines : SaveFileGoroutineEnd(p)
    \/ \E w \in Workers : fileWorkerResult(w)
    \/ \E w \in Workers : fileWorkerExit(w)
    \/ \E v \in DirWorkers : dirWorkerReceive(v)
    \/ \E v \in DirWorkers : dirWorkerChild(v)
    \/ \E v \in DirWorkers : dirWorkerFindTree(v)
    \/ \E v \in DirWorkers : dirWorkerSaveTree(v)
    \/ \E v \in DirWorkers : dirWorkerExit(v)
    \/ SnapshotTree
    \/ SnapshotSave

SpecSnapshot == InitSnapshot /\ [][NextSnapshot]_vars

----------------------------------------------------------------------------
(* SpecCancel: Snapshot when its channel done is closed. Snapshot makes the *)
(* channel (line 726) and hands it to the walkers, compare and the workers; *)
(* nothing in archiver.go closes it. The close is the signal of section 5   *)
(* of the specification, and what the stages do on it is their code.        *)

\* the done signal fires while Snapshot runs
closeDone ==
    /\ ~panicked
    /\ ~done
    /\ snap.pc \in {"wait", "tree"}
    /\ done' = TRUE
    /\ UNCHANGED <<saverVars, compareVars, split, fw, dw, results, tindex, snap, walkErr, pre>>

\* pipe.Walk on done: it stops, closes its channel and returns an error
\* (lines 766-772), having sent no root job
walkStop ==
    /\ ~panicked
    /\ done
    /\ newCh # <<>>
    /\ newCh' = <<>>
    /\ walkErr' = TRUE
    /\ UNCHANGED <<saverVars, oldCh, cmp, walked, split, fw, dw, results, tindex, snap, done, pre>>

\* WalkTree on done: it stops and closes its channel
walkTreeStop ==
    /\ ~panicked
    /\ done
    /\ oldCh # <<>>
    /\ oldCh' = <<>>
    /\ UNCHANGED <<saverVars, newCh, cmp, walked, pipeVars, pre>>

\* lines 583-585: copyJobs takes the case of done in its select, and compare
\* returns with it
copyJobsDone ==
    /\ ~panicked
    /\ done
    /\ cmp.pc \in {"copyRecv", "copySend"}
    /\ cmp' = [cmp EXCEPT !.pc = "done"]
    /\ UNCHANGED <<oldCh, newCh, walked>>
    /\ UNCHANGED otherThanCompare

\* lines 475-478: a file worker that waits for a job takes the case of done
fileWorkerDone(w) ==
    /\ ~panicked
    /\ done
    /\ fw[w].pc = "recv"
    /\ fw' = [fw EXCEPT ![w].pc = "exit"]
    /\ UNCHANGED <<index, store, nextSid, sf, panicked, hist, dw, results, tindex, snap, split>>
    /\ UNCHANGED <<cmp, walked>>
    /\ UNCHANGED pipeOthers

\* lines 534-537: a directory worker that waits for a job takes the case of
\* done
dirWorkerDone(v) ==
    /\ ~panicked
    /\ done
    /\ dw[v].pc = "recv"
    /\ dw' = [dw EXCEPT ![v].pc = "exit"]
    /\ UNCHANGED <<index, store, nextSid, sf, panicked, hist, fw, results, tindex, snap, split>>
    /\ UNCHANGED <<cmp, walked>>
    /\ UNCHANGED pipeOthers

\* the store operations of Save that succeed
SaveStepOk(p) ==
    \/ SaveFindID(p)
    \/ SaveFromOk(p)
    \/ SaveInsert(p)
    \/ SaveRemoveOk(p)

\* the runs of SpecCancel start with an empty arch.m and all objects of the
\* parent snapshot in the store, and no store operation fails in them; the
\* parent, if any, has the file a/b and no directory below a/, the files have
\* the same chunk and no directory is empty
InitCancel ==
    /\ index = {}
    /\ store = 1..NOld
    /\ nextSid = NOld
    /\ tokens = maxConcurrentBlobs
    /\ sv = [p \in Procs |-> IdleSave]
    /\ sf = [w \in Workers |-> IdleFile]
    /\ st = IdleTree
    /\ panicked = FALSE
    /\ hist = [InitHist EXCEPT !.fails = MaxFail]
    /\ InitPipeline
    /\ \A i \in 1..Len(walked.old) : Len(walked.old[i].Path) < 3
    /\ walked.old # <<>> => walked.old[1].Path = <<1, 2>>
    /\ \A i \in 1..Len(walked.new) : FileData(walked.new[i].Info) = <<"d1">>
    /\ \A i \in 1..Len(walked.new) :
          walked.new[i].Path = <<1, 3>> => Entries(<<1, 3>>) # <<>>

NextCancel ==
    \/ compareLoadOld
    \/ compareLoadNew
    \/ compareJobs
    \/ copyJobsReceive
    \/ splitReceive
    \/ splitClose
    \/ \E w \in Workers : fileWorkerReceive(w)
    \/ \E w \in Workers : SaveFileStep(w)
    \/ \E p \in Goroutines : SaveStepOk(p)
    \/ \E p \in Goroutines : SaveFileGoroutineEnd(p)
    \/ \E w \in Workers : fileWorkerResult(w)
    \/ \E w \in Workers : fileWorkerExit(w)
    \/ \E v \in DirWorkers : dirWorkerReceive(v)
    \/ \E v \in DirWorkers : dirWorkerChild(v)
    \/ \E v \in DirWorkers : dirWorkerFindTree(v)
    \/ \E v \in DirWorkers : dirWorkerSaveTree(v)
    \/ \E v \in DirWorkers : dirWorkerExit(v)
    \/ SnapshotTree
    \/ SnapshotSave
    \/ closeDone
    \/ walkStop
    \/ walkTreeStop
    \/ copyJobsDone
    \/ \E w \in Workers : fileWorkerDone(w)
    \/ \E v \in DirWorkers : dirWorkerDone(v)

SpecCancel == InitCancel /\ [][NextCancel]_vars

\* the scheduler runs every goroutine that can take a step
SpecCancelLive == SpecCancel /\ WF_vars(NextCancel)

----------------------------------------------------------------------------
(* Claims about the snapshot *)

\* C4 as stated: when the snapshot is committed, every storage object its
\* root tree refers to, directly or through the trees below, is in the store
\* (store.Test succeeds), whatever arch.m and the store held at the start.
C4_ReferencedBlobsInStore ==
    snap.pc = "committed" => \A sid \in snap.refs : Test(sid)

\* the entry of a job is a file the parent snapshot holds with the same size
\* and mtime, and the chunks of that file are all in the store
UnchangedFile(job) ==
    \E i \in 1..Len(walked.old) :
        LET old == walked.old[i]
        IN  /\ old.Path = job.Path
            /\ old.Node.Type = "file"
            /\ job.Info.Type = "file"
            /\ old.Node.ModTime = job.Info.ModTime
            /\ old.Node.Size = job.Info.Size
            /\ contentComplete(old.Node)

\* C5 as stated: the Save calls for a file that is unchanged since the parent
\* snapshot, with all its chunks in the store, make no SaveFrom call,
\* whatever else was added or removed around the file.
C5_UnchangedFileNotUploaded ==
    \A w \in Workers :
        (fw[w].pc = "save" /\ UnchangedFile(fw[w].job)) =>
            \A k \in 1..sf[w].n : sv[<<w, k>>].up = 0

----------------------------------------------------------------------------
(* Claims about the token pool *)

\* the goroutines SaveFile started that are inside Save
InSave == {p \in Goroutines : sv[p].pc \in {"find", "upload", "insert", "remove"}}

\* the goroutines that hold a token: those inside Save, and those that came
\* back from it and have not yet put the token back
HoldToken == InSave \cup {p \in Goroutines : sv[p].pc = "ret"}

\* C11: the chunk saves in flight, over all files that are being saved, never
\* exceed the capacity of the token channel, and the tokens held and the
\* tokens in the channel add up to the capacity.
C11_TokenBound ==
    /\ Cardinality(InSave) <= maxConcurrentBlobs
    /\ tokens >= 0
    /\ Cardinality(HoldToken) + tokens = maxConcurrentBlobs

\* C11 witness: all tokens are out, held by chunk saves of both files, and a
\* SaveFile with a further chunk waits for a token.
C11_Witness ==
    /\ tokens = 0
    /\ Cardinality(InSave) = maxConcurrentBlobs
    /\ \A w \in Workers : \E k \in 1..MaxChunks : <<w, k>> \in InSave
    /\ \E w \in Workers : sf[w].pc = "chunk" /\ sf[w].n < Len(sf[w].chunks)

----------------------------------------------------------------------------
(* Claims about the directory workers *)

\* the paths of the entries of a tree, in the order of the tree
NamesOf(tree) == [i \in 1..Len(tree) |-> tree[i].Name]

\* a tree for the directory path holds its entries, all of them, in the order
\* of dir.Entries, each with the type the walker saw, a file with its content
\* and a directory with the tree of its own entries
TreeComplete(path, tree) ==
    /\ NamesOf(tree) = Entries(path)
    /\ \A i \in 1..Len(tree) :
          LET job == CHOOSE j \in {walked.new[n] : n \in 1..Len(walked.new)} :
                        j.Path = tree[i].Name
          IN  /\ tree[i].Type = job.Info.Type
              /\ tree[i].Type = "file" => tree[i].Content = FileData(job.Info)
              /\ tree[i].Type = "dir" => NamesOf(tree[i].Subtree) = Entries(tree[i].Name)

----------------------------------------------------------------------------
(* Claims about the nodes of the snapshot *)

RECURSIVE FileEntries(_)
\* the file nodes of a tree and of the trees below it
FileEntries(tree) ==
    IF tree = <<>> THEN {}
    ELSE (IF Head(tree).Type = "file" THEN {Head(tree)} ELSE {})
            \cup FileEntries(Head(tree).Subtree) \cup FileEntries(Tail(tree))

\* the root tree of the snapshot, as arch.m holds it
SnapshotRootTree == (CHOOSE b \in tindex : b.Storage = snap.tree).ID

\* C13: in the tree of a committed snapshot every file node has one blob per
\* content-id, and the sizes of these blobs add up to the size of the node,
\* for a node SaveFile filled and for a node that got the content of the old
\* node.
C13_ContentSizeIsNodeSize ==
    snap.pc = "committed" =>
        \A e \in FileEntries(SnapshotRootTree) :
            Len(e.Map) = Len(e.Content) /\ SumSizes(e.Map) = e.Size

\* C13 witness: a snapshot is committed whose tree holds a file that SaveFile
\* uploaded and a file that took over the content of its old node.
C13_Witness ==
    /\ snap.pc = "committed"
    /\ \E e1, e2 \in FileEntries(SnapshotRootTree) :
          /\ \E i \in 1..Len(walked.sent) :
                /\ walked.sent[i].out.Path = e1.Name
                /\ walked.sent[i].out.Node # NoNode
          /\ e1.Map[1].Storage <= NOld
          /\ e2.Map[1].Storage > NOld

----------------------------------------------------------------------------
(* Claims about failures and cancellation *)

\* SaveFile of the job of file worker w has failed: it returned an error, or
\* the Save of one of its chunks did
SaveFileFailed(w) ==
    /\ fw[w].pc = "save"
    /\ \/ sf[w].pc = "err"
       \/ \E k \in 1..sf[w].n : sv[<<w, k>>].pc = "ret" /\ sv[<<w, k>>].err

\* C14 as stated: when SaveFile has failed for the job of a file worker,
\* nothing panics; the next step of the worker puts the Node of the job into
\* its result channel and the worker waits for the next job.
C14_SaveFileFailureRecorded ==
    [][\A w \in Workers :
          SaveFileFailed(w) =>
              /\ ~panicked'
              /\ fw'[w] # fw[w] =>
                    /\ results'[fw[w].job.Path].Type = "file"
                    /\ fw'[w].pc = "recv"]_vars

\* C15 as stated: when done has fired before Snapshot completed, the run has
\* written no tree and no snapshot to the store; the trees of this run are
\* those arch.m has records of.
C15_CancelWritesNoTree ==
    done => (tindex = {} /\ snap.pc # "committed")

\* compare, split and all workers have returned, so that wg.Wait() returns
StagesTerminated ==
    /\ cmp.pc = "done"
    /\ waitReturns

\* C16 as stated: once done has fired, compare, split and every worker
\* return, and the wg.Wait() of Snapshot returns.
C16_CancelTerminates == done ~> StagesTerminated

----------------------------------------------------------------------------
(* Archiver.Preload. NewCache, Cache.Load, LoadTree and Server.EachID are   *)
(* not part of the sources: each call either succeeds or returns an error.  *)

\* number of workers of Preload, scaled down from the program's 20
maxConcurrencyPreload == 2

PreloadWorkers == 1..maxConcurrencyPreload

\* the tree objects of the repository, in the order EachID lists them
TreeIDs == <<"t1", "t2", "t3">>

\* what a tree object is to Preload: in the cache and decodable, in the
\* cache and not decodable, not in the cache and loadable from the store, or
\* not in the cache and not loadable
TreeStates == {"cached", "cachedBad", "stored", "storedBad"}

\* tree.Map of a tree object
TreeMap(t) ==
    CASE t = "t1" -> {Blob("d1", 1, 1)}
      [] t = "t2" -> {Blob("d2", 2, 1)}
      [] OTHER -> {Blob("d1", 3, 1), Blob("d2", 2, 1)}

IdlePreloadWorker == [pc |-> "off", id |-> NilID]

\* line 65: the call of Preload
PreloadStart(repo) ==
    [pc |-> "start", repo |-> repo, todo |-> TreeIDs, listed |-> {}, wk |-> [w \in PreloadWorkers |-> IdlePreloadWorker],
     merged |-> {}, skipped |-> {}, cacheErr |-> FALSE, listErr |-> FALSE, err |-> FALSE]

\* lines 65-68 and 108-116: NewCache; on its error Preload returns it, else
\* the workers start and EachID begins to list
PreloadNewCache ==
    /\ pre.pc = "start"
    /\ \/ pre' = [pre EXCEPT !.pc = "ret", !.cacheErr = TRUE, !.err = TRUE]
       \/ pre' = [pre EXCEPT !.pc = "list",
                             !.wk = [w \in PreloadWorkers |-> [pc |-> "recv", id |-> NilID]]]
    /\ UNCHANGED <<saverVars, compareVars, pipeVars>>

\* line 123 and line 77: the callback of EachID sends the next id on idCh,
\* a worker at the head of its loop receives it
PreloadSend(w) ==
    /\ pre.pc = "list"
    /\ pre.todo # <<>>
    /\ pre.wk[w].pc = "recv"
    /\ pre' = [pre EXCEPT !.todo = Tail(@), !.listed = @ \cup {Head(pre.todo)},
                          !.wk[w] = [pc |-> "load", id |-> Head(pre.todo)]]
    /\ UNCHANGED <<saverVars, compareVars, pipeVars>>

\* lines 78-103: the tree from the cache, or else from the store; on an
\* error of Decode or of LoadTree the tree is skipped, else its Map is
\* merged into arch.m
PreloadLoad(w) ==
    /\ pre.wk[w].pc = "load"
    /\ LET id == pre.wk[w].id
       IN  IF pre.repo[id] \in {"cachedBad", "storedBad"}
           THEN /\ pre' = [pre EXCEPT !.skipped = @ \cup {id},
                                      !.wk[w] = [pc |-> "recv", id |-> NilID]]
                /\ UNCHANGED index
           ELSE /\ index' = Merge(index, TreeMap(id))
                /\ pre' = [pre EXCEPT !.merged = @ \cup {id},
                                      !.wk[w] = [pc |-> "recv", id |-> NilID]]
    /\ UNCHANGED <<store, nextSid, tokens, sv, sf, st, panicked, hist>>
    /\ UNCHANGED <<compareVars, pipeVars>>

\* lines 118-126: EachID returns, with nil after the last id or with an
\* error at any point of the listing, and idCh is closed
PreloadListEnd ==
    /\ pre.pc = "list"
    /\ \E e \in BOOLEAN :
          /\ ~e => pre.todo = <<>>
          /\ pre' = [pre EXCEPT !.pc = "wait", !.listErr = e]
    /\ UNCHANGED <<saverVars, compareVars, pipeVars>>

\* lines 77 and 105: idCh is closed, the loop of the worker ends
PreloadWorkerExit(w) ==
    /\ pre.pc = "wait"
    /\ pre.wk[w].pc = "recv"
    /\ pre' = [pre EXCEPT !.wk[w].pc = "exit"]
    /\ UNCHANGED <<saverVars, compareVars, pipeVars>>

\* a Preload that also returns the error of a worker
PreloadResultOfWorkers(listErr, treeErr) == listErr \/ treeErr

\* line 136: err is the result of EachID (line 118); the err of a worker is
\* a variable of its own (line 82)
PreloadResult(listErr, treeErr) == listErr

\* lines 128-136: wg.Wait, and Preload returns the result of EachID
PreloadReturn ==
    /\ pre.pc = "wait"
    /\ \A w \in PreloadWorkers : pre.wk[w].pc = "exit"
    /\ pre' = [pre EXCEPT !.pc = "ret", !.err = PreloadResult(pre.listErr, pre.skipped # {})]
    /\ UNCHANGED <<saverVars, compareVars, pipeVars>>

\* NewArchiver (lines 39-60), then Preload on a repository of three trees
InitPreload ==
    /\ InitSaver
    /\ index = {}
    /\ oldCh = <<>>
    /\ newCh = <<>>
    /\ cmp = [pc |-> "off"]
    /\ walked = [old |-> <<>>, new |-> <<>>, sent |-> <<>>]
    /\ split = [pc |-> "off"]
    /\ fw = [w \in Workers |-> [pc |-> "off"]]
    /\ dw = [v \in DirWorkers |-> [pc |-> "off"]]
    /\ results = <<>>
    /\ tindex = {}
    /\ snap = [pc |-> "off"]
    /\ done = FALSE
    /\ walkErr = FALSE
    /\ \E repo \in [{TreeIDs[i] : i \in 1..Len(TreeIDs)} -> TreeStates] : pre = PreloadStart(repo)

NextPreload ==
    \/ PreloadNewCache
    \/ \E w \in PreloadWorkers : PreloadSend(w)
    \/ \E w \in PreloadWorkers : PreloadLoad(w)
    \/ PreloadListEnd
    \/ \E w \in PreloadWorkers : PreloadWorkerExit(w)
    \/ PreloadReturn

SpecPreload == InitPreload /\ [][NextPreload]_vars

----------------------------------------------------------------------------
(* Claims about Preload *)

\* the IDs of the records of a Map
IDsOf(m) == {b.ID : b \in m}

\* Preload has returned, its workers are gone, and it has merged the Map of
\* every tree it listed and could load
PreloadedWhatLoads ==
    /\ \A w \in PreloadWorkers : pre.wk[w].pc \in {"off", "exit"}
    /\ pre.merged \cup pre.skipped = pre.listed
    /\ \A t \in pre.listed :
          IF pre.repo[t] \in {"cached", "stored"}
          THEN t \in pre.merged /\ IDsOf(TreeMap(t)) \subseteq IDsOf(index)
          ELSE t \in pre.skipped
    /\ IsMap(index)

\* C17 as stated: Preload is advisory. When it returns, every tree that
\* failed to load or to decode was skipped, the Maps of the other listed
\* trees are merged into arch.m, all workers have returned, and it returns
\* no error.
C17_PreloadNeverFails ==
    pre.pc = "ret" => (PreloadedWhatLoads /\ ~pre.err)

\* C17, amended: as above, but Preload returns the error of NewCache (before
\* it reads any tree) and the error of the listing; it returns no error
\* when only trees failed to load or to decode, and has then seen every tree.
C17_PreloadSkipsBadTrees ==
    pre.pc = "ret" =>
        /\ PreloadedWhatLoads
        /\ pre.err <=> (pre.cacheErr \/ pre.listErr)
        /\ pre.cacheErr => (pre.listed = {} /\ index = {})
        /\ ~pre.err => pre.listed = DOMAIN pre.repo

\* Preload returned nil although a tree failed to load and one to decode,
\* and merged a tree listed after them
C17_Witness ==
    /\ pre.pc = "ret"
    /\ ~pre.err
    /\ pre.repo["t1"] = "cachedBad"
    /\ pre.repo["t2"] = "storedBad"
    /\ "t3" \in pre.merged
    /\ IDsOf(index) = {"d1", "d2"}

----------------------------------------------------------------------------
(* SpecTree: Archiver.saveTree of a tree with one file node whose content   *)
(* is one chunk. os.Open, arch.Error and the store may fail.                *)

\* a saveTree that saves no file again
saveTreeNoContentNever(content) == FALSE

\* line 352: len(node.Content) == 0
saveTreeNoContent(content) == Len(content) = 0

\* lines 352-367: the node has no content (any more): a goroutine calls
\* SaveFile for it, which opens the file (lines 208-212) and chunks what the
\* file holds now, or returns the error of os.Open
saveTreeSaveFile(chunks) ==
    /\ ~panicked
    /\ st.pc = "checked"
    /\ saveTreeNoContent(st.content)
    /\ \/ /\ sf' = [sf EXCEPT !["w1"] = SaveFileStart("w1", chunks)]
          /\ st' = [st EXCEPT !.pc = "file", !.resaved = TRUE, !.file = chunks]
       \/ /\ chunks = <<>>
          /\ st' = [st EXCEPT !.pc = "wait", !.resaved = TRUE, !.nodeErr = TRUE]
          /\ UNCHANGED sf
    /\ UNCHANGED <<index, store, nextSid, tokens, sv, panicked, hist>>
    /\ UNCHANGED otherThanSaver

\* line 352: the node keeps its content, no goroutine is started
saveTreeKeep ==
    /\ ~panicked
    /\ st.pc = "checked"
    /\ ~saveTreeNoContent(st.content)
    /\ st' = [st EXCEPT !.pc = "wait"]
    /\ UNCHANGED <<index, store, nextSid, tokens, sv, sf, panicked, hist>>
    /\ UNCHANGED otherThanSaver

\* lines 359-363 and 370: SaveFile returned: n.err is its error, its blobs go
\* into t.Map; node.Content is what SaveFile left there (line 288 fills it
\* before the size check of line 296)
saveTreeFileSaved ==
    /\ ~panicked
    /\ st.pc = "file"
    /\ sf["w1"].pc \in {"ok", "err"}
    /\ st' = [st EXCEPT !.pc = "wait",
                        !.nodeErr = sf["w1"].pc = "err",
                        !.content = sf["w1"].content,
                        !.map = IF sf["w1"].pc = "ok" THEN InsertAll(@, sf["w1"].blobs) ELSE @]
    /\ sf' = [sf EXCEPT !["w1"] = IdleFile]
    /\ UNCHANGED <<index, store, nextSid, tokens, sv, panicked, hist>>
    /\ UNCHANGED otherThanSaver

\* line 401: Map.Prune keeps the records of the ids in use
Prune(m, used) == {b \in m : b.ID \in used}

\* lines 375-399: the loop over the nodes after wg.Wait: for a node with an
\* error arch.Error is called; saveTree returns what it returns when that is
\* an error, else the message goes into node.Error
saveTreeInvalid ==
    /\ ~panicked
    /\ st.pc = "wait"
    /\ IF st.nodeErr
       THEN \E abort \in BOOLEAN :
               st' = IF abort THEN [st EXCEPT !.pc = "aborted"]
                     ELSE [st EXCEPT !.pc = "json", !.Error = TRUE]
       ELSE st' = [st EXCEPT !.pc = "json"]
    /\ UNCHANGED <<index, store, nextSid, tokens, sv, sf, panicked, hist>>
    /\ UNCHANGED otherThanSaver

\* lines 400-416: the Map is pruned and the tree is serialized and saved by
\* SaveTreeJSON, whose error saveTree returns
saveTreeJSON ==
    /\ ~panicked
    /\ st.pc = "json"
    /\ \/ /\ st' = [st EXCEPT !.pc = "saved",
                              !.tree = [Content |-> st.content, Error |-> st.Error,
                                        Map |-> Prune(st.map, {st.content[i] : i \in 1..Len(st.content)})]]
          /\ store' = store \cup {nextSid + 1}
          /\ nextSid' = nextSid + 1
          /\ UNCHANGED hist
       \/ /\ hist.fails < MaxFail
          /\ hist' = [hist EXCEPT !.fails = @ + 1]
          /\ st' = [st EXCEPT !.pc = "failed"]
          /\ UNCHANGED <<store, nextSid>>
    /\ UNCHANGED <<index, tokens, sv, sf, panicked>>
    /\ UNCHANGED otherThanSaver

\* the goroutines of the SaveFile call of saveTree
TreeGoroutines == {"w1"} \X (1..MaxChunks)

NextTree ==
    \/ \E tmap \in TreeMaps, d \in DataIDs : saveTreeMerge(tmap, <<d>>)
    \/ saveTreeCheck
    \/ saveTreeChecked
    \/ \E chunks \in ChunkLists : saveTreeSaveFile(chunks)
    \/ saveTreeKeep
    \/ SaveFileStep("w1")
    \/ \E p \in TreeGoroutines : SaveStep(p)
    \/ \E p \in TreeGoroutines : SaveFileGoroutineEnd(p)
    \/ saveTreeFileSaved
    \/ saveTreeInvalid
    \/ saveTreeJSON

SpecTree == Init /\ [][NextTree]_vars

----------------------------------------------------------------------------
(* Claims about saveTree *)

\* saveTree has returned
saveTreeReturned == st.pc \in {"saved", "aborted", "failed"}

\* C18 as stated: when a content id of a file node is not in t.Map, or its
\* object fails Test, the tree saveTree serializes holds the node with an
\* empty content list and a non-empty error field, and saveTree succeeds.
C18_RepairLeavesEmptyNode ==
    (saveTreeReturned /\ st.removeContent) =>
        /\ st.pc = "saved"
        /\ st.tree.Content = <<>>
        /\ st.tree.Error

\* C18, amended: in that case saveTree empties the node's content and calls
\* SaveFile for the node. The tree it serializes holds the node with the
\* chunks SaveFile saved and no error when SaveFile succeeded, and with a
\* non-empty error field when SaveFile failed, with an empty content list if
\* the file could not be opened. saveTree returns an error only when
\* arch.Error returned one for the failure of SaveFile or when saving the
\* tree failed.
C18_RepairSavesFileAgain ==
    (saveTreeReturned /\ st.removeContent) =>
        /\ st.resaved
        /\ st.pc = "aborted" => st.nodeErr
        /\ st.pc = "failed" => hist.fails > 0
        /\ st.pc = "saved" =>
              /\ st.tree.Error <=> st.nodeErr
              /\ ~st.nodeErr => st.tree.Content = st.file
              /\ (st.nodeErr /\ st.file = <<>>) => st.tree.Content = <<>>

\* a node whose chunk was missing is serialized with the chunks of the file
\* and no error
C18_Witness ==
    /\ st.pc = "saved"
    /\ st.removeContent
    /\ st.tree.Content = <<"d2", "d1">>
    /\ ~st.tree.Error

----------------------------------------------------------------------------
(* Claims about the commit of the snapshot *)

\* Snapshot is past wg.Wait and has taken the nodes of the top-level paths
SnapshotPastWait == snap.pc \in {"tree", "committed", "failed"}

\* C19: the snapshot object is written at most once, as the last object of
\* the run, and only after split and all workers have returned, the nodes of
\* the top-level paths have been read from their result channels and the
\* root tree has been saved; when saving the root tree (or the snapshot)
\* fails, no snapshot object is written.
C19_CommitOrder ==
    /\ SnapshotPastWait => (waitReturns /\ cmp.pc = "done")
    /\ snap.pc \in {"tree", "committed"} =>
          /\ \A p \in Paths : results[p] = NoResult
          /\ snap.tree # NilSid
          /\ snap.tree \in snap.refs
    /\ snap.pc = "committed" =>
          /\ snap.id \in store
          /\ snap.id = nextSid
          /\ snap.id # snap.tree /\ snap.id \notin snap.refs
    /\ snap.pc # "committed" => snap.id = NilSid
    /\ snap.pc = "failed" => hist.fails > 0

\* a snapshot of a directory with a file is committed
C19_Witness ==
    /\ snap.pc = "committed"
    /\ snap.id \in store
    /\ tindex # {}
    /\ hist.uploaded # {}

----------------------------------------------------------------------------
(* SpecTerminate: Snapshot with no close of done and no failing store       *)
(* operation, with one or two workers of each kind, under a fair scheduler  *)

\* the file system of a tree whose present paths are ps: a/ and a/c/ are
\* directories, the others files of one chunk
TreeOf(ps) ==
    [p \in Paths |-> IF p \notin ps THEN Absent
                     ELSE IF p \in {<<1>>, <<1, 3>>} THEN DirInfo ELSE FileInfo(1, 1)]

\* a directory of three files, directories three deep with the top, and two
\* top-level paths
TerminateTrees ==
    {TreeOf({<<1>>, <<1, 2>>, <<1, 3>>, <<1, 3, 4>>}),
     TreeOf({<<1>>, <<1, 2>>, <<1, 5>>, <<0>>})} \cup
    {t \in Trees : /\ \A p \in {<<1>>, <<1, 2>>, <<1, 3>>, <<1, 5>>} : t[p].Type = "file" \/ p = <<1>>
                   /\ t[<<1>>] = DirInfo /\ t[<<0>>] = Absent
                   /\ \A p \in Paths : t[p].Type = "file" => t[p] = FileInfo(1, 1)}

\* lines 790-795: n file workers and n directory workers are started; the
\* others of the model never run and count as returned
InitTerminate ==
    /\ index = {}
    /\ store = 1..NOld
    /\ nextSid = NOld
    /\ tokens = maxConcurrentBlobs
    /\ sv = [p \in Procs |-> IdleSave]
    /\ sf = [w \in Workers |-> IdleFile]
    /\ st = IdleTree
    /\ panicked = FALSE
    /\ hist = [InitHist EXCEPT !.fails = MaxFail]
    /\ pre = NoPreload
    /\ \E told \in {TreeOf({}), TreeOf({<<1>>, <<1, 2>>})}, tnew \in TerminateTrees :
          /\ oldCh = OldStream(told)
          /\ newCh = NewStream(tnew)
          /\ walked = [old |-> OldStream(told), new |-> NewStream(tnew), sent |-> <<>>]
    /\ cmp = CompareStart
    /\ split = [pc |-> "recv", job |-> NoJob]
    /\ results = [p \in Paths |-> NoResult]
    /\ tindex = {}
    /\ done = FALSE
    /\ walkErr = FALSE
    /\ \E n \in 1..2 :
          /\ fw = [w \in Workers |->
                     [pc |-> IF n = 1 /\ w = "w2" THEN "exit" ELSE "recv", job |-> NoJob]]
          /\ dw = [v \in DirWorkers |->
                     IF n = 1 /\ v = "v2" THEN [IdleDir EXCEPT !.pc = "exit"] ELSE IdleDir]
          /\ snap = [pc |-> "wait", tree |-> NilSid, refs |-> {}, id |-> NilSid,
                     workers |-> n]

NextTerminate ==
    \/ compareLoadOld
    \/ compareLoadNew
    \/ compareJobs
    \/ copyJobsReceive
    \/ splitReceive
    \/ splitClose
    \/ \E w \in Workers : fileWorkerReceive(w)
    \/ \E w \in Workers : SaveFileStep(w)
    \/ \E p \in Goroutines : SaveStepOk(p)
    \/ \E p \in Goroutines : SaveFileGoroutineEnd(p)
    \/ \E w \in Workers : fileWorkerResult(w)
    \/ \E w \in Workers : fileWorkerExit(w)
    \/ \E v \in DirWorkers : dirWorkerReceive(v)
    \/ \E v \in DirWorkers : dirWorkerChild(v)
    \/ \E v \in DirWorkers : dirWorkerFindTree(v)
    \/ \E v \in DirWorkers : dirWorkerSaveTree(v)
    \/ \E v \in DirWorkers : dirWorkerExit(v)
    \/ SnapshotTree
    \/ SnapshotSave

\* the scheduler runs every goroutine that can take a step
SpecTerminate == InitTerminate /\ [][NextTerminate]_vars /\ WF_vars(NextTerminate)

----------------------------------------------------------------------------
(* Claims about termination *)

\* wg.Wait() returns with the Node of every top-level path in its result
\* channel, not yet read by Snapshot
WaitReturnsWithNodes ==
    /\ snap.pc = "wait"
    /\ cmp.pc = "done"
    /\ waitReturns
    /\ \A i \in 1..Len(Entries(<<>>)) : results[Entries(<<>>)[i]].Type # "none"

----------------------------------------------------------------------------
(* Claims about a failed upload *)

\* SaveFrom of the call p has returned an error: Save holds Blob{} for the
\* Insert of line 154
UploadFailed(p) == sv[p].pc = "insert" /\ sv[p].blob = ZeroBlob

\* C21: when SaveFrom returns an error, Save returns an error to its caller
\* and leaves arch.m as it was.
C21_FailedUploadReturnsError ==
    [][\A p \in Procs :
          (UploadFailed(p) /\ sv'[p] # sv[p]) =>
              /\ sv'[p].pc = "ret"
              /\ sv'[p].err
              /\ index' = index]_vars

----------------------------------------------------------------------------
(* SpecTreeJSON: the SaveTreeJSON calls of the directory workers, each for   *)
(* a directory whose entries are all in                                     *)

\* the trees of the directories: that of an empty directory, and that of a
\* directory with one file of one chunk
DirTrees ==
    {<<>>,
     <<TreeEntry(<<2>>, [NoResult EXCEPT !.Type = "file", !.Size = 1, !.Content = <<"d1">>,
                                         !.blobs = <<Blob("d1", 1, 1)>>])>>}

\* the directories the two workers have jobs for: a/b/ and a/e/
DirJobPath(v) == IF v = "v1" THEN <<1, 2>> ELSE <<1, 5>>

\* lines 492-521: a directory worker has received a directory and the Nodes
\* of its entries and has built its tree and its Node
dirWorkerTree(v, tree) ==
    /\ ~panicked
    /\ dw[v].pc = "recv"
    /\ dw' = [dw EXCEPT ![v] = [IdleDir EXCEPT !.pc = "wait", !.k = 1, !.tree = tree,
                                               !.job = [NoJob EXCEPT !.Path = DirJobPath(v)]]]
    /\ results' = [results EXCEPT ![DirJobPath(v)] = NoResult]
    /\ UNCHANGED <<index, store, nextSid, sf, panicked, hist, fw, tindex, snap, split>>
    /\ UNCHANGED <<cmp, walked>>
    /\ UNCHANGED pipeOthers

\* the workers wait for directories; arch.m holds no tree
InitTreeJSON ==
    /\ InitSaver
    /\ oldCh = <<>>
    /\ newCh = <<>>
    /\ cmp = [pc |-> "off"]
    /\ walked = [old |-> <<>>, new |-> <<>>, sent |-> <<>>]
    /\ split = [pc |-> "off"]
    /\ fw = [w \in Workers |-> [pc |-> "off"]]
    /\ dw = [v \in DirWorkers |-> IdleDir]
    /\ results = [p \in Paths |-> NoResult]
    /\ tindex = {}
    /\ snap = [pc |-> "off"]
    /\ done = FALSE
    /\ walkErr = FALSE
    /\ pre = NoPreload

NextTreeJSON ==
    \/ \E v \in DirWorkers, tree \in DirTrees : dirWorkerTree(v, tree)
    \/ \E v \in DirWorkers : dirWorkerFindTree(v)
    \/ \E v \in DirWorkers : dirWorkerSaveTree(v)

SpecTreeJSON == InitTreeJSON /\ [][NextTreeJSON]_vars

----------------------------------------------------------------------------
(* Claims about SaveTreeJSON *)

\* the tree objects the run has written to the store and not removed
TreeObjects == {sid \in store : sid > NOld}

\* C22: every SaveTreeJSON call returns the record arch.m holds for the id of
\* its tree, and when no call is running the store holds one tree object for
\* each id arch.m has a record of.
C22_SameTreeSavedOnce ==
    /\ \A v \in DirWorkers :
          results[DirJobPath(v)].Type = "dir" =>
              results[DirJobPath(v)].blobs[1] \in tindex
    /\ (\A v \in DirWorkers : dw[v].pc = "recv") =>
          Cardinality(TreeObjects) = Cardinality(tindex)

====
